---------------------------- MODULE Spec2Model ----------------------------
(***************************************************************************)
(* Model of src/app.py: the endpoint POST /ask (ask_ai), the streaming     *)
(* response pipeline (stream_zhipu_ai_response), the knowledge lookup      *)
(* (get_rag_info), the thinking filter (filter_thinking_content), the      *)
(* response formatter (format_ai_response) and the lazily created shared   *)
(* upstream client (_zhipu_client).                                        *)
(*                                                                         *)
(* Specifications:                                                         *)
(*    Spec        requests one after the other                             *)
(*    SpecLive    the same with a consuming caller and a finite upstream   *)
(*    SpecCancel  Spec with callers that go away                           *)
(*    SpecConc    requests in parallel threads                             *)
(*    SpecText    the text functions called on their own                   *)
(*                                                                         *)
(* Text is a sequence of tokens.  A token is one character of the Python   *)
(* string, or one of the fixed words the regular expressions of app.py     *)
(* match literally, written in ASCII:                                      *)
(*    "["  "]"             the brackets U+3010 and U+3011                  *)
(*    "risk" "level"       the two halves of the risk-level marker word    *)
(*    "risk" "point"       the risk-point marker word                      *)
(*    "feeding_advice"     the feeding-advice marker word                  *)
(*    "thinking_process"   "reasoning_process"   the two plain-text labels *)
(*    ":"  "fw:"           the ASCII colon and the full-width colon        *)
(*    "thinking" "reasoning" "redacted"   the denylisted tag words         *)
(*    "thin" "king"        the two halves of the word thinking: side by    *)
(*                         side they are the word                          *)
(*    " "  "\n"  "<"  ">"  "/"  "a"  "b"  single characters                *)
(*    "A"                  an upper-case letter (str.lower makes it "a")   *)
(*    "qiao" "ke" "li"  "pu" "tao"  "yang" "cong"  "mu" "tang" "chun"      *)
(*    "niu" "you" "guo"  "sheng" "ji" "dan"  "ka" "fei"  "cha"  "xi" "gua" *)
(*    "ping" "guo"         the characters of the keys of PET_KNOWLEDGE     *)
(*    "reference"          the word of the reference line                  *)
(*    "fact1" .. "fact10"  the values of PET_KNOWLEDGE                     *)
(***************************************************************************)
EXTENDS Integers, Sequences, FiniteSets

----------------------------------------------------------------------------
(* Text helpers *)

Min(S) == CHOOSE x \in S : \A y \in S : x <= y

Whitespace == {" ", "\n"}

Colons == {":", "fw:"}

FW_COLON == <<"fw:">>

Keywords == {"thinking", "reasoning", "redacted"}

RISK_LEVEL == <<"[", "risk", "level", "]">>

RISK_POINT == <<"[", "risk", "point", "]">>

FEEDING_ADVICE == <<"[", "feeding_advice", "]">>

\* w occurs in s at position i
HasAt(s, i, w) ==
    /\ i >= 1
    /\ i + Len(w) - 1 <= Len(s)
    /\ \A k \in 1..Len(w) : s[i + k - 1] = w[k]

\* Python's  w in s
Contains(s, w) == \E i \in 1..Len(s) : HasAt(s, i, w)

\* the first index >= i that is not whitespace (the end of a greedy \s*)
RECURSIVE SkipWs(_, _)
SkipWs(s, i) ==
    IF i <= Len(s) /\ s[i] \in Whitespace THEN SkipWs(s, i + 1) ELSE i

\* str.strip()
RECURSIVE Strip(_)
Strip(s) ==
    IF s = <<>> THEN s
    ELSE IF s[1] \in Whitespace THEN Strip(Tail(s))
    ELSE IF s[Len(s)] \in Whitespace THEN Strip(SubSeq(s, 1, Len(s) - 1))
    ELSE s

----------------------------------------------------------------------------
(* The two tag patterns of filter_thinking_content and format_ai_response *)

\* mutant of HasKeyword: any tag counts as a denylisted tag
HasKeywordAny(s, lo, hi) == TRUE

\* (?:thinking|reasoning|redacted) occurs in s within the positions lo..hi
HasKeyword(s, lo, hi) ==
    \E k \in lo..hi :
        \/ s[k] \in Keywords
        \/ k < hi /\ s[k] = "thin" /\ s[k + 1] = "king"

\* <[^>]*(?:thinking|reasoning|redacted)[^>]*/?>  matched at i: the tag ends at
\* the first ">" after i, with a denylisted word in between.
SelfClosingEnd(s, i) ==
    IF s[i] # "<" THEN 0
    ELSE LET gts == {j \in (i + 1)..Len(s) : s[j] = ">"}
         IN  IF gts = {} THEN 0
             ELSE IF HasKeyword(s, i + 1, Min(gts) - 1)
                  THEN Min(gts)
                  ELSE 0

\* </[^>]*(?:thinking|reasoning|redacted)[^>]*>  matched at q
ClosingEnd(s, q) ==
    IF ~HasAt(s, q, <<"<", "/">>) THEN 0
    ELSE LET gts == {j \in (q + 2)..Len(s) : s[j] = ">"}
         IN  IF gts = {} THEN 0
             ELSE IF HasKeyword(s, q + 2, Min(gts) - 1)
                  THEN Min(gts)
                  ELSE 0

\* <[^>]*K[^>]*>.*?</[^>]*K[^>]*>  (DOTALL) matched at i: an opening tag, then
\* the nearest closing tag after it.
PairedEnd(s, i) ==
    LET p == SelfClosingEnd(s, i)
    IN  IF p = 0 THEN 0
        ELSE LET qs == {q \in (p + 1)..Len(s) : ClosingEnd(s, q) # 0}
             IN  IF qs = {} THEN 0 ELSE ClosingEnd(s, Min(qs))

----------------------------------------------------------------------------
(* The patterns of format_ai_response *)

\* label[<colon>].*?(?=[|$)  (DOTALL) matched at i: the label, a colon, then
\* everything up to the next "[" or the end of the text ($ also matches before
\* a final newline).
LabelEnd(s, i, label) ==
    IF ~(HasAt(s, i, <<label>>) /\ i + 1 <= Len(s) /\ s[i + 1] \in Colons) THEN 0
    ELSE Min({p \in (i + 2)..(Len(s) + 1) :
                 \/ p = Len(s) + 1
                 \/ s[p] = "["
                 \/ (p = Len(s) /\ s[p] = "\n")}) - 1

\* <marker>:\s*  matched at i
AsciiColonEnd(s, i, marker) ==
    IF HasAt(s, i, marker \o <<":">>)
    THEN SkipWs(s, i + Len(marker) + 1) - 1
    ELSE 0

\* where the group ([^[]*?) of  <from>[:<fw:>]?([^[]*?)<to>  starts
GroupStart(s, i, from) ==
    LET j == i + Len(from)
    IN  IF j <= Len(s) /\ s[j] \in Colons THEN j + 1 ELSE j

\* the first "[" at or after j (Len(s) + 1: none)
NextBracket(s, j) == Min({q \in j..(Len(s) + 1) : q = Len(s) + 1 \/ s[q] = "["})

\* <from>[:<fw:>]?([^[]*?)<to>  matched at i
BetweenEnd(s, i, from, to) ==
    IF ~HasAt(s, i, from) THEN 0
    ELSE LET q == NextBracket(s, GroupStart(s, i, from))
         IN  IF HasAt(s, q, to) THEN q + Len(to) - 1 ELSE 0

\* the replacement  <from><fw:>\1\n\n<to>
BetweenRepl(s, i, from, to) ==
    LET g == GroupStart(s, i, from)
    IN  from \o FW_COLON \o SubSeq(s, g, NextBracket(s, g) - 1)
             \o <<"\n", "\n">> \o to

\* <marker>\s*[:<fw:>]\s*  matched at i
ColonEnd(s, i, marker) ==
    IF ~HasAt(s, i, marker) THEN 0
    ELSE LET k == SkipWs(s, i + Len(marker))
         IN  IF k <= Len(s) /\ s[k] \in Colons THEN SkipWs(s, k + 1) - 1 ELSE 0

\* <marker>\s*[:<fw:>]?\s*  matched at i
OptColonEnd(s, i, marker) ==
    IF ~HasAt(s, i, marker) THEN 0
    ELSE LET k == SkipWs(s, i + Len(marker))
         IN  IF k <= Len(s) /\ s[k] \in Colons THEN SkipWs(s, k + 1) - 1 ELSE k - 1

\* \n{3,}  matched at i
RECURSIVE SkipNewlines(_, _)
SkipNewlines(s, i) ==
    IF i <= Len(s) /\ s[i] = "\n" THEN SkipNewlines(s, i + 1) ELSE i

NewlinesEnd(s, i) ==
    IF SkipNewlines(s, i) - i >= 3 THEN SkipNewlines(s, i) - 1 ELSE 0

----------------------------------------------------------------------------
(* re.sub *)

\* the index of the last token of the match of pattern pat starting at i
\* (0: no match there)
MatchEnd(pat, s, i) ==
    CASE pat.kind = "paired_tag"  -> PairedEnd(s, i)
      [] pat.kind = "self_closing" -> SelfClosingEnd(s, i)
      [] pat.kind = "label"       -> LabelEnd(s, i, pat.label)
      [] pat.kind = "ascii_colon" -> AsciiColonEnd(s, i, pat.marker)
      [] pat.kind = "between"     -> BetweenEnd(s, i, pat.from, pat.to)
      [] pat.kind = "colon"       -> ColonEnd(s, i, pat.marker)
      [] pat.kind = "opt_colon"   -> OptColonEnd(s, i, pat.marker)
      [] pat.kind = "newlines"    -> NewlinesEnd(s, i)

\* the replacement of the match starting at i
Replacement(pat, s, i) ==
    CASE pat.kind \in {"paired_tag", "self_closing", "label"} -> <<>>
      [] pat.kind \in {"ascii_colon", "colon", "opt_colon"} -> pat.marker \o FW_COLON
      [] pat.kind = "between"  -> BetweenRepl(s, i, pat.from, pat.to)
      [] pat.kind = "newlines" -> <<"\n", "\n">>

\* re.sub(pat, repl, s) from position i on: leftmost matches, not overlapping
RECURSIVE ReSub(_, _, _)
ReSub(pat, s, i) ==
    IF i > Len(s) THEN <<>>
    ELSE LET e == MatchEnd(pat, s, i)
         IN  IF e = 0 THEN <<s[i]>> \o ReSub(pat, s, i + 1)
             ELSE Replacement(pat, s, i) \o ReSub(pat, s, e + 1)

----------------------------------------------------------------------------
(* filter_thinking_content *)

StripTags(s) ==
    ReSub([kind |-> "self_closing"], ReSub([kind |-> "paired_tag"], s, 1), 1)

filter_thinking_content(content) ==
    IF content = <<>> THEN content ELSE StripTags(content)

----------------------------------------------------------------------------
(* format_ai_response *)

\* lines 171-178: the tag patterns again, then the two plain-text labels
StripThinking(text) ==
    ReSub([kind |-> "label", label |-> "reasoning_process"],
          ReSub([kind |-> "label", label |-> "thinking_process"],
                StripTags(text), 1), 1)

\* one pattern of kind k applied for each of the three markers in turn
ForEachMarker(k, text) ==
    ReSub([kind |-> k, marker |-> FEEDING_ADVICE],
          ReSub([kind |-> k, marker |-> RISK_POINT],
                ReSub([kind |-> k, marker |-> RISK_LEVEL], text, 1), 1), 1)

\* lines 190-193: a blank line before the risk-point marker that follows the
\* risk-level marker, and before the feeding-advice marker that follows the
\* risk-point marker
InsertSectionBreaks(text) ==
    ReSub([kind |-> "between", from |-> RISK_POINT, to |-> FEEDING_ADVICE],
          ReSub([kind |-> "between", from |-> RISK_LEVEL, to |-> RISK_POINT],
                text, 1), 1)

\* str.split('\n')
RECURSIVE Split(_)
Split(s) ==
    LET nls == {k \in 1..Len(s) : s[k] = "\n"}
    IN  IF nls = {} THEN <<s>>
        ELSE <<SubSeq(s, 1, Min(nls) - 1)>> \o Split(SubSeq(s, Min(nls) + 1, Len(s)))

\* '\n'.join(lines)
RECURSIVE Join(_)
Join(lines) ==
    IF lines = <<>> THEN <<>>
    ELSE IF Len(lines) = 1 THEN lines[1]
    ELSE lines[1] \o <<"\n">> \o Join(Tail(lines))

\* mutant of IsHeader: every line is taken for a header line
IsHeaderAlways(line) == TRUE

\* lines 214-222
IsHeader(line) ==
    \/ Contains(line, RISK_LEVEL)
    \/ Contains(line, RISK_POINT)
    \/ Contains(line, FEEDING_ADVICE)

\* lines 206-248: the walk over the lines from line i on, with the lines
\* already output and the section being collected
RECURSIVE SectionWalk(_, _, _, _)
SectionWalk(lines, i, formatted_lines, current_section) ==
    IF i > Len(lines) THEN formatted_lines \o current_section
    ELSE LET line == Strip(lines[i])
         IN  IF line = <<>>
             THEN SectionWalk(lines, i + 1, formatted_lines, current_section)
             ELSE IF IsHeader(line)
             THEN SectionWalk(lines, i + 1,
                      IF current_section # <<>>
                      THEN formatted_lines \o current_section \o << <<>> >>
                      ELSE formatted_lines,
                      <<ForEachMarker("opt_colon", line)>>)
             ELSE IF current_section # <<>>
             THEN SectionWalk(lines, i + 1, formatted_lines,
                              Append(current_section, line))
             ELSE SectionWalk(lines, i + 1, Append(formatted_lines, line),
                              current_section)

format_ai_response(text) ==
    IF text = <<>> THEN text
    ELSE LET normalized ==
                 ForEachMarker("colon",
                     InsertSectionBreaks(
                         ForEachMarker("ascii_colon",
                             StripThinking(Strip(text)))))
             joined == Join(SectionWalk(Split(normalized), 1, <<>>, <<>>))
         IN  Strip(ReSub([kind |-> "newlines"], joined, 1))

----------------------------------------------------------------------------
(* The knowledge table and the user message *)

\* lines 103-114, in the order of the dict
PET_KNOWLEDGE ==
    << [item |-> <<"qiao", "ke", "li">>, fact |-> <<"fact1">>],
       [item |-> <<"pu", "tao">>, fact |-> <<"fact2">>],
       [item |-> <<"yang", "cong">>, fact |-> <<"fact3">>],
       [item |-> <<"mu", "tang", "chun">>, fact |-> <<"fact4">>],
       [item |-> <<"niu", "you", "guo">>, fact |-> <<"fact5">>],
       [item |-> <<"sheng", "ji", "dan">>, fact |-> <<"fact6">>],
       [item |-> <<"ka", "fei">>, fact |-> <<"fact7">>],
       [item |-> <<"cha">>, fact |-> <<"fact8">>],
       [item |-> <<"xi", "gua">>, fact |-> <<"fact9">>],
       [item |-> <<"ping", "guo">>, fact |-> <<"fact10">>] >>

\* str.lower()
Lower(s) == [i \in 1..Len(s) |-> IF s[i] = "A" THEN "a" ELSE s[i]]

\* mutant of FirstMatch: the loop has no break and the last match is kept
FirstMatchLast(hits) == CHOOSE k \in hits : \A j \in hits : j <= k

\* lines 123-126: the loop stops at the first entry that matches
FirstMatch(hits) == Min(hits)

\* lines 117-132
get_rag_info(question) ==
    LET lower_question == Lower(question)
        hits == {k \in 1..Len(PET_KNOWLEDGE) :
                    Contains(lower_question, PET_KNOWLEDGE[k].item)}
    IN  IF hits = {} THEN <<>>
        ELSE LET entry == PET_KNOWLEDGE[FirstMatch(hits)]
             IN  <<"\n", "reference", "fw:">>
                     \o <<"[">> \o entry.item \o <<"]">> \o entry.fact

\* lines 301-309: the content of the user message
full_user_prompt(question) ==
    LET rag_context == get_rag_info(question)
    IN  IF rag_context # <<>> THEN question \o rag_context ELSE question

----------------------------------------------------------------------------
(* Bounds and inputs *)

\* concurrent request slots (generators alive at the same time)
NumReq == 2

\* chunks one upstream stream delivers before it ends or fails
MaxChunks == 3

Reqs == 1..NumReq

\* Optional[str]: None, or a text
None == [set |-> FALSE, val |-> <<>>]

Some(v) == [set |-> TRUE, val |-> v]

\* Python's  not x  for an Optional[str]
Falsy(x) == ~x.set \/ x.val = <<>>

\* what os.getenv("ZHIPU_API_KEY") can return: unset, empty, a key
KeyValues == {None, Some(<<>>), Some(<<"k">>)}

\* the details of the exceptions the SDK raises (str(exc))
Excs == {"ConnectionError: upstream unreachable", "APIStatusError: 401 invalid key"}

\* one streamed chunk whose first choice carries the given delta fields
Chunk(content, reasoning_content) ==
    [choices |-> << [delta |-> [content |-> content,
                                reasoning_content |-> reasoning_content]] >>]

\* a chunk with an empty choices list
NoChoicesChunk == [choices |-> <<>>]

\* the content fragments upstream sends: plain text, a tag alone, text with a
\* self-closing tag, a risk-level section with an ASCII colon, a risk-point
\* marker glued to the text before it
Fragments ==
    { <<"a">>,
      <<"<", "thinking", ">">>,
      <<"b", "<", "thinking", "/", ">">>,
      <<"[", "risk", "level", "]", ":", "a">>,
      <<"[", "risk", "point", "]", "fw:", "b">> }

Chunks ==
    {NoChoicesChunk, Chunk(None, Some(<<"a">>)), Chunk(Some(<<>>), None),
     Chunk(Some(<<"a">>), Some(<<"b">>))}
    \cup {Chunk(Some(f), None) : f \in Fragments \ {<<"a">>}}

ConcChunks == {Chunk(Some(<<"a", " ">>), None)}

\* a chunk that is skipped, one whose content is sent, one whose content the
\* formatter changes
LiveChunks ==
    {NoChoicesChunk, Chunk(Some(<<"a">>), Some(<<"b">>)),
     Chunk(Some(<<"[", "risk", "level", "]", ":", "a">>), None)}

\* request.question: empty, whitespace only, a question inside whitespace
\* that names the eighth key of the table and then the first
Questions == {<<>>, <<" ", "\n">>, <<" ", "cha", " ", "qiao", "ke", "li", "\n">>}

ConcQuestions == {<<"a">>}

----------------------------------------------------------------------------
(* State *)

VARIABLES
    zhipu_client,         \* the module-level _zhipu_client: NoClient, or a client
    constructed,          \* ZhipuAiClient(...) calls that returned a client
    pc,                   \* where each request's generator is
    api_key,              \* the local api_key
    client,               \* the local client (line 298)
    full_content_buffer,  \* the local full_content_buffer
    events,               \* what the generator has yielded, in order
    received,             \* the chunks response_stream has delivered, in order
    calls,                \* client.chat.completions.create calls of the request
    ctor_calls,           \* ZhipuAiClient(...) calls of the request
    logged,               \* the exceptions the request passed to logger.error
    request,              \* request.question of the POST /ask being answered
    question,             \* the generator's parameter question
    http_status,          \* the status of the response to the request
    messages,             \* the content of the user message of messages
    disconnected,         \* the caller of the request has gone away
    text_in,              \* the argument of a text function called on its own
    applied,              \* the text function that was called on text_in
    text_out,             \* what it returned
    text_again            \* what it returned when called on text_out

vars == <<zhipu_client, constructed, pc, api_key, client, full_content_buffer,
          events, received, calls, ctor_calls, logged, request, question,
          http_status, messages, disconnected, text_in, applied, text_out,
          text_again>>

\* what the calls of the text functions on their own write
textVars == <<text_in, applied, text_out, text_again>>

\* what the requests write
pipelineVars == <<zhipu_client, constructed, pc, api_key, client,
                  full_content_buffer, events, received, calls, ctor_calls,
                  logged, request, question, http_status, messages,
                  disconnected>>

\* what ask_ai writes
reqVars == <<request, question, http_status>>

\* no response has been made
NoStatus == 0

\* _zhipu_client is None
NoClient == 0

\* the generator is suspended at a yield that ends the stream
TerminalPcs == {"y_nokey", "y_initerr", "y_uperr", "y_done"}

\* mutant of LoopPcs: the loop is not gone back into after a content event
LoopPcsNoResume == {"iter"}

\* the generator is in the  for chunk in response_stream  loop
LoopPcs == {"iter", "y_content"}

\* the generator has not been started, or is suspended at a yield; anywhere
\* else it is running
SuspendedPcs == {"start", "y_status", "y_content", "y_formatted"} \cup TerminalPcs

----------------------------------------------------------------------------
(* Events: the  data: <json>  frames *)

StatusEvent == [kind |-> "status", data |-> <<"thinking">>]

ContentEvent(filtered_content) == [kind |-> "content", data |-> filtered_content]

FormattedEvent(formatted_text) == [kind |-> "formatted", data |-> formatted_text]

DoneEvent == [kind |-> "done", data |-> <<"true">>]

ErrorEvent(message) == [kind |-> "error", data |-> <<message>>]

\* line 280
MSG_NOT_CONFIGURED == "the server has no AI service configured, contact the administrator"

\* line 294
MSG_INIT_FAILED == "AI client initialisation failed, check the configuration"

\* line 419
MSG_UNAVAILABLE == "the AI service is temporarily unavailable, try again later"

----------------------------------------------------------------------------
(* stream_zhipu_ai_response, step by step.  A step runs the generator from  *)
(* one point where another thread or the caller can act to the next: a      *)
(* yield, or a read or write of _zhipu_client.                              *)

PipelineInit ==
    /\ zhipu_client = NoClient
    /\ constructed = 0
    /\ pc = [r \in Reqs |-> "idle"]
    /\ api_key = [r \in Reqs |-> None]
    /\ client = [r \in Reqs |-> NoClient]
    /\ full_content_buffer = [r \in Reqs |-> <<>>]
    /\ events = [r \in Reqs |-> <<>>]
    /\ received = [r \in Reqs |-> <<>>]
    /\ calls = [r \in Reqs |-> 0]
    /\ ctor_calls = [r \in Reqs |-> 0]
    /\ logged = [r \in Reqs |-> <<>>]
    /\ request = [r \in Reqs |-> <<>>]
    /\ question = [r \in Reqs |-> <<>>]
    /\ http_status = [r \in Reqs |-> NoStatus]
    /\ messages = [r \in Reqs |-> None]
    /\ disconnected = [r \in Reqs |-> FALSE]

\* no text function is called on its own
Init ==
    /\ PipelineInit
    /\ text_in = <<>>
    /\ applied = "none"
    /\ text_out = None
    /\ text_again = None

\* the generator is running, or its caller is there to resume it: a generator
\* is not resumed for a caller that has gone away
Runs(r) == pc[r] \in SuspendedPcs => ~disconnected[r]

Goto(r, label) == pc' = [pc EXCEPT ![r] = label]

\* yield f"data: {...}\n\n"
Yield(r, event) == events' = [events EXCEPT ![r] = Append(@, event)]

\* logger.error("...", exc)
LogError(r, exc) == logged' = [logged EXCEPT ![r] = Append(@, exc)]

\* lines 452-453: StreamingResponse(stream_zhipu_ai_response(question, ...)):
\* a new generator is handed to the response; nothing of it has run
Start(r, q) ==
    /\ Goto(r, "start")
    /\ question' = [question EXCEPT ![r] = q]
    /\ http_status' = [http_status EXCEPT ![r] = 200]

\* line 449: raise HTTPException(status_code=400, ...)
Reject(r) ==
    /\ http_status' = [http_status EXCEPT ![r] = 400]
    /\ UNCHANGED <<pc, question>>

\* mutant of Trimmed: the question is taken as it came
TrimmedAsSent(raw) == raw

\* line 447:  question = request.question.strip()
Trimmed(raw) == Strip(raw)

\* lines 441-459: POST /ask with request.question = raw, answered by the
\* first free slot
ask_ai(r, raw) ==
    /\ pc[r] = "idle"
    /\ \A q \in Reqs : q < r => pc[q] # "idle"
    /\ request' = [request EXCEPT ![r] = raw]
    /\ IF Trimmed(raw) = <<>> THEN Reject(r) ELSE Start(r, Trimmed(raw))
    /\ UNCHANGED <<textVars, messages, disconnected>>
    /\ UNCHANGED <<zhipu_client, constructed, api_key, client,
                   full_content_buffer, events, received, calls, ctor_calls,
                   logged>>

\* mutant of KeyMissing:  if api_key is None  (an empty key passes)
KeyMissingNoneOnly(key) == ~key.set

\* line 279:  if not api_key
KeyMissing(key) == Falsy(key)

\* mutant of KeyCheck: the status event is not yielded before the client is
\* looked up
KeyCheckNoStatus(r, key) ==
    /\ pc[r] = "start"
    /\ Runs(r)
    /\ api_key' = [api_key EXCEPT ![r] = key]
    /\ full_content_buffer' = [full_content_buffer EXCEPT ![r] = <<>>]
    /\ IF Falsy(key)
       THEN Yield(r, ErrorEvent(MSG_NOT_CONFIGURED)) /\ Goto(r, "y_nokey")
       ELSE Goto(r, "y_status") /\ UNCHANGED events
    /\ UNCHANGED <<reqVars, textVars, messages, disconnected>>
    /\ UNCHANGED <<zhipu_client, constructed, client, received, calls,
                   ctor_calls, logged>>

\* lines 274-286: the first next(): the credential is read and checked; the
\* error is yielded without it, the status with it
KeyCheck(r, key) ==
    /\ pc[r] = "start"
    /\ Runs(r)
    /\ api_key' = [api_key EXCEPT ![r] = key]
    /\ full_content_buffer' = [full_content_buffer EXCEPT ![r] = <<>>]
    /\ IF KeyMissing(key)
       THEN Yield(r, ErrorEvent(MSG_NOT_CONFIGURED)) /\ Goto(r, "y_nokey")
       ELSE Yield(r, StatusEvent) /\ Goto(r, "y_status")
    /\ UNCHANGED <<reqVars, textVars, messages, disconnected>>
    /\ UNCHANGED <<zhipu_client, constructed, client, received, calls,
                   ctor_calls, logged>>

\* mutant of CheckClient: a client is constructed for every request
CheckClientAlways(r) ==
    /\ pc[r] = "y_status"
    /\ Runs(r)
    /\ Goto(r, "ctor")
    /\ UNCHANGED <<reqVars, textVars, messages, disconnected>>
    /\ UNCHANGED <<zhipu_client, constructed, api_key, client,
                   full_content_buffer, events, received, calls, ctor_calls,
                   logged>>

\* line 289:  if _zhipu_client is None
CheckClient(r) ==
    /\ pc[r] = "y_status"
    /\ Runs(r)
    /\ Goto(r, IF zhipu_client = NoClient THEN "ctor" ELSE "bind")
    /\ UNCHANGED <<reqVars, textVars, messages, disconnected>>
    /\ UNCHANGED <<zhipu_client, constructed, api_key, client,
                   full_content_buffer, events, received, calls, ctor_calls,
                   logged>>

\* line 291: ZhipuAiClient(api_key=api_key) returns a client, which is stored
ConstructOk(r) ==
    /\ pc[r] = "ctor"
    /\ constructed' = constructed + 1
    /\ zhipu_client' = constructed + 1
    /\ ctor_calls' = [ctor_calls EXCEPT ![r] = @ + 1]
    /\ Goto(r, "bind")
    /\ UNCHANGED <<reqVars, textVars, messages, disconnected>>
    /\ UNCHANGED <<api_key, client, full_content_buffer, events, received,
                   calls, logged>>

\* line 294: the message of the event for a constructor that raised exc
InitErrorMessage(exc) == MSG_INIT_FAILED

\* lines 292-296: ZhipuAiClient(...) raises
ConstructFail(r, exc) ==
    /\ pc[r] = "ctor"
    /\ ctor_calls' = [ctor_calls EXCEPT ![r] = @ + 1]
    /\ LogError(r, exc)
    /\ Yield(r, ErrorEvent(InitErrorMessage(exc)))
    /\ Goto(r, "y_initerr")
    /\ UNCHANGED <<reqVars, textVars, messages, disconnected>>
    /\ UNCHANGED <<zhipu_client, constructed, api_key, client,
                   full_content_buffer, received, calls>>

\* lines 298-315:  client = _zhipu_client, then the messages are built
BindClient(r) ==
    /\ pc[r] = "bind"
    /\ client' = [client EXCEPT ![r] = zhipu_client]
    /\ messages' = [messages EXCEPT ![r] = Some(full_user_prompt(question[r]))]
    /\ Goto(r, "call")
    /\ UNCHANGED <<reqVars, textVars, disconnected>>
    /\ UNCHANGED <<zhipu_client, constructed, api_key, full_content_buffer,
                   events, received, calls, ctor_calls, logged>>

\* lines 321-328: client.chat.completions.create(...) returns the stream
CallOk(r) ==
    /\ pc[r] = "call"
    /\ client[r] # NoClient
    /\ calls' = [calls EXCEPT ![r] = @ + 1]
    /\ Goto(r, "iter")
    /\ UNCHANGED <<reqVars, textVars, messages, disconnected>>
    /\ UNCHANGED <<zhipu_client, constructed, api_key, client,
                   full_content_buffer, events, received, ctor_calls, logged>>

\* mutant of UpstreamErrorMessage: the exception's text is sent to the caller
UpstreamErrorMessageLeak(exc) == exc

\* line 419: the message of the event for an upstream failure exc
UpstreamErrorMessage(exc) == MSG_UNAVAILABLE

\* mutant of AfterUpstreamError: the handler is inside the loop, which goes on
AfterUpstreamErrorResume == "iter"

\* mutant of AfterUpstreamError: the handler falls through to the end marker
AfterUpstreamErrorFallThrough == "y_formatted"

\* mutant of AfterUpstreamError: the handler retries the call
AfterUpstreamErrorRetry == "call"

\* where the generator goes after  except Exception  has yielded the error
AfterUpstreamError == "y_uperr"

\* lines 417-420:  except Exception as exc
HandleUpstreamError(r, exc) ==
    /\ LogError(r, exc)
    /\ Yield(r, ErrorEvent(UpstreamErrorMessage(exc)))
    /\ Goto(r, AfterUpstreamError)

\* lines 321-328, 417-420: client.chat.completions.create(...) raises
CallFail(r, exc) ==
    /\ pc[r] = "call"
    /\ calls' = [calls EXCEPT ![r] = @ + 1]
    /\ HandleUpstreamError(r, exc)
    /\ UNCHANGED <<reqVars, textVars, messages, disconnected>>
    /\ UNCHANGED <<zhipu_client, constructed, api_key, client,
                   full_content_buffer, received, ctor_calls>>

\* lines 334-364: the content of the first choice's delta; reasoning_content
\* is not read
ChunkContent(chunk) ==
    IF chunk.choices # <<>> THEN chunk.choices[1].delta.content ELSE None

\* lines 367-376: the chunk is passed over
Skipped(content) ==
    Falsy(content) \/ filter_thinking_content(content.val) = <<>>

\* mutant of ContentPayload: the unfiltered content is sent
ContentPayloadRaw(content) == content.val

\* lines 372, 387: what the content event of a chunk carries
ContentPayload(content) == filter_thinking_content(content.val)

\* mutant of Recorded: the fragment is appended before the filtered text is
\* tested for emptiness
RecordedBeforeFilter(content) == IF Falsy(content) THEN <<>> ELSE <<content.val>>

\* line 385: what the chunk adds to full_content_buffer
Recorded(content) == IF Skipped(content) THEN <<>> ELSE <<content.val>>

\* lines 332-388: response_stream delivers a chunk
NextChunk(r, chunk) ==
    /\ pc[r] \in LoopPcs
    /\ Runs(r)
    /\ received' = [received EXCEPT ![r] = Append(@, chunk)]
    /\ LET content == ChunkContent(chunk)
       IN  /\ full_content_buffer' =
                  [full_content_buffer EXCEPT ![r] = @ \o Recorded(content)]
           /\ IF Skipped(content)
              THEN Goto(r, "iter") /\ UNCHANGED events
              ELSE Yield(r, ContentEvent(ContentPayload(content)))
                   /\ Goto(r, "y_content")
    /\ UNCHANGED <<reqVars, textVars, messages, disconnected>>
    /\ UNCHANGED <<zhipu_client, constructed, api_key, client, calls,
                   ctor_calls, logged>>

\* lines 332, 417-420: response_stream raises instead of delivering
IterFail(r, exc) ==
    /\ pc[r] \in LoopPcs
    /\ Runs(r)
    /\ HandleUpstreamError(r, exc)
    /\ UNCHANGED <<reqVars, textVars, messages, disconnected>>
    /\ UNCHANGED <<zhipu_client, constructed, api_key, client,
                   full_content_buffer, received, calls, ctor_calls>>

\* ''.join(full_content_buffer)
RECURSIVE Concat(_)
Concat(fragments) ==
    IF fragments = <<>> THEN <<>> ELSE fragments[1] \o Concat(Tail(fragments))

\* mutant of NeedsFormatted: the formatted text is sent whether it differs or not
NeedsFormattedAlways(full_text, formatted_text) == TRUE

\* line 409: a formatted event is due
NeedsFormatted(full_text, formatted_text) == formatted_text # full_text

\* lines 390-415: response_stream is exhausted
StreamEnd(r) ==
    /\ pc[r] \in LoopPcs
    /\ Runs(r)
    /\ LET full_text == Concat(full_content_buffer[r])
           formatted_text == format_ai_response(full_text)
       IN  IF /\ full_content_buffer[r] # <<>>
              /\ NeedsFormatted(full_text, formatted_text)
           THEN Yield(r, FormattedEvent(formatted_text)) /\ Goto(r, "y_formatted")
           ELSE Yield(r, DoneEvent) /\ Goto(r, "y_done")
    /\ UNCHANGED <<reqVars, textVars, messages, disconnected>>
    /\ UNCHANGED <<zhipu_client, constructed, api_key, client,
                   full_content_buffer, received, calls, ctor_calls, logged>>

\* lines 412-415: resumed after the formatted event
AfterFormatted(r) ==
    /\ pc[r] = "y_formatted"
    /\ Runs(r)
    /\ Yield(r, DoneEvent)
    /\ Goto(r, "y_done")
    /\ UNCHANGED <<reqVars, textVars, messages, disconnected>>
    /\ UNCHANGED <<zhipu_client, constructed, api_key, client,
                   full_content_buffer, received, calls, ctor_calls, logged>>

\* lines 282, 296, 415, 420: resumed after its last yield the generator
\* returns; its locals are gone and the slot is free for the next request
Return(r) ==
    /\ pc[r] \in TerminalPcs
    /\ Runs(r)
    /\ Goto(r, "idle")
    /\ api_key' = [api_key EXCEPT ![r] = None]
    /\ client' = [client EXCEPT ![r] = NoClient]
    /\ full_content_buffer' = [full_content_buffer EXCEPT ![r] = <<>>]
    /\ events' = [events EXCEPT ![r] = <<>>]
    /\ received' = [received EXCEPT ![r] = <<>>]
    /\ calls' = [calls EXCEPT ![r] = 0]
    /\ ctor_calls' = [ctor_calls EXCEPT ![r] = 0]
    /\ logged' = [logged EXCEPT ![r] = <<>>]
    /\ request' = [request EXCEPT ![r] = <<>>]
    /\ question' = [question EXCEPT ![r] = <<>>]
    /\ http_status' = [http_status EXCEPT ![r] = NoStatus]
    /\ messages' = [messages EXCEPT ![r] = None]
    /\ UNCHANGED <<zhipu_client, constructed, disconnected, text_in, applied,
                   text_out, text_again>>

\* the caller of request r goes away.  Nothing in the generator looks at the
\* connection: it goes on until its next yield.
Disconnect(r) ==
    /\ pc[r] # "idle"
    /\ ~disconnected[r]
    /\ disconnected' = [disconnected EXCEPT ![r] = TRUE]
    /\ UNCHANGED <<zhipu_client, constructed, pc, api_key, client,
                   full_content_buffer, events, received, calls, ctor_calls,
                   logged, reqVars, messages, textVars>>

\* lines 286, 388, 412, 415, 417: the generator of a caller that has gone away
\* is closed where it is suspended: GeneratorExit is raised at the yield, it
\* is not an Exception, so no handler runs and nothing more is yielded; the
\* locals are gone
Close(r) ==
    /\ pc[r] \in SuspendedPcs
    /\ disconnected[r]
    /\ Goto(r, "idle")
    /\ api_key' = [api_key EXCEPT ![r] = None]
    /\ client' = [client EXCEPT ![r] = NoClient]
    /\ full_content_buffer' = [full_content_buffer EXCEPT ![r] = <<>>]
    /\ events' = [events EXCEPT ![r] = <<>>]
    /\ received' = [received EXCEPT ![r] = <<>>]
    /\ calls' = [calls EXCEPT ![r] = 0]
    /\ ctor_calls' = [ctor_calls EXCEPT ![r] = 0]
    /\ logged' = [logged EXCEPT ![r] = <<>>]
    /\ request' = [request EXCEPT ![r] = <<>>]
    /\ question' = [question EXCEPT ![r] = <<>>]
    /\ http_status' = [http_status EXCEPT ![r] = NoStatus]
    /\ messages' = [messages EXCEPT ![r] = None]
    /\ disconnected' = [disconnected EXCEPT ![r] = FALSE]
    /\ UNCHANGED <<zhipu_client, constructed, textVars>>

----------------------------------------------------------------------------
(* Specifications *)

\* no generator is alive
AllIdle == \A r \in Reqs : pc[r] = "idle"

\* one request after the other, every chunk shape
Next ==
    \E r \in Reqs :
        \/ \E raw \in Questions : AllIdle /\ ask_ai(r, raw)
        \/ \E key \in KeyValues : KeyCheck(r, key)
        \/ CheckClient(r)
        \/ ConstructOk(r)
        \/ \E exc \in Excs : ConstructFail(r, exc)
        \/ BindClient(r)
        \/ CallOk(r)
        \/ \E exc \in Excs : CallFail(r, exc)
        \/ \E chunk \in Chunks :
               Len(received[r]) < MaxChunks /\ NextChunk(r, chunk)
        \/ \E exc \in Excs : IterFail(r, exc)
        \/ StreamEnd(r)
        \/ AfterFormatted(r)
        \/ Return(r)

Spec == Init /\ [][Next]_vars

\* requests in parallel threads (StreamingResponse iterates a plain generator
\* in the thread pool), streams of at most one chunk
NextConc ==
    \E r \in Reqs :
        \/ \E raw \in ConcQuestions : ask_ai(r, raw)
        \/ \E key \in KeyValues : KeyCheck(r, key)
        \/ CheckClient(r)
        \/ ConstructOk(r)
        \/ \E exc \in Excs : ConstructFail(r, exc)
        \/ BindClient(r)
        \/ CallOk(r)
        \/ \E exc \in Excs : CallFail(r, exc)
        \/ \E chunk \in ConcChunks :
               received[r] = <<>> /\ NextChunk(r, chunk)
        \/ \E exc \in Excs : IterFail(r, exc)
        \/ StreamEnd(r)
        \/ AfterFormatted(r)
        \/ Return(r)

SpecConc == Init /\ [][NextConc]_vars

\* a step of the generator of request r
GeneratorStep(r) ==
    \/ \E key \in KeyValues : KeyCheck(r, key)
    \/ CheckClient(r)
    \/ ConstructOk(r)
    \/ \E exc \in Excs : ConstructFail(r, exc)
    \/ BindClient(r)
    \/ CallOk(r)
    \/ \E exc \in Excs : CallFail(r, exc)
    \/ \E chunk \in LiveChunks :
           Len(received[r]) < MaxChunks /\ NextChunk(r, chunk)
    \/ \E exc \in Excs : IterFail(r, exc)
    \/ StreamEnd(r)
    \/ AfterFormatted(r)
    \/ Return(r)

\* one request after the other, streams of three chunk shapes
NextLive ==
    \E r \in Reqs :
        \/ \E raw \in Questions : AllIdle /\ ask_ai(r, raw)
        \/ GeneratorStep(r)

\* a caller that resumes the generator at every yield, calls that return or
\* raise, and an upstream stream that delivers its next chunk, ends or
\* raises: a generator that can take a step takes one
SpecLive == Init /\ [][NextLive]_vars /\ \A r \in Reqs : WF_vars(GeneratorStep(r))

\* one request after the other, with callers that may go away at any time
NextCancel ==
    \E r \in Reqs :
        \/ \E raw \in Questions : AllIdle /\ ask_ai(r, raw)
        \/ \E key \in KeyValues : KeyCheck(r, key)
        \/ CheckClient(r)
        \/ ConstructOk(r)
        \/ \E exc \in Excs : ConstructFail(r, exc)
        \/ BindClient(r)
        \/ CallOk(r)
        \/ \E exc \in Excs : CallFail(r, exc)
        \/ \E chunk \in Chunks :
               Len(received[r]) < MaxChunks /\ NextChunk(r, chunk)
        \/ \E exc \in Excs : IterFail(r, exc)
        \/ StreamEnd(r)
        \/ AfterFormatted(r)
        \/ Return(r)
        \/ Disconnect(r)
        \/ Close(r)

SpecCancel == Init /\ [][NextCancel]_vars

----------------------------------------------------------------------------
(* The text functions called on their own *)

\* the longest text made of single tokens
MaxText == 4

\* the most pieces a text made of tag pieces has
MaxPieces == 3

\* the sequences over S of length at most n
Seqs(S, n) == UNION {[1..k -> S] : k \in 0..n}

\* texts without section markers: letters, spaces, line breaks, tag
\* characters, a denylisted word, a plain-text label and its colon
PlainAlphabet == {"a", " ", "\n", "<", ">", "thinking", "thinking_process", ":"}

PlainTexts == Seqs(PlainAlphabet, MaxText)

\* texts of opening and closing tags, whole or in parts that removing what
\* lies between them brings together
TagPieces ==
    { <<"<", "thinking", ">">>, <<"<", "/", "thinking", ">">>, <<"<", "thin">>,
      <<"king", ">">>, <<"<">>, <<">">>, <<"a">> }

TagTexts == {Concat(pieces) : pieces \in Seqs(TagPieces, MaxPieces)}

\* what the model writes before the first marker and after each marker
Prefixes == {<<>>, <<"a">>, <<"a", "\n">>}

SectionContents ==
    { <<>>, <<"a">>, <<"fw:", "a">>, <<":", " ", "a", "\n">>,
      <<"\n", "a", " ", "b">>, <<"a", "[", "b", "]">> }

\* answers with the three markers in order
SectionedTexts ==
    {pre \o RISK_LEVEL \o c1 \o RISK_POINT \o c2 \o FEEDING_ADVICE \o c3 :
        pre \in Prefixes, c1 \in SectionContents, c2 \in SectionContents,
        c3 \in SectionContents}

\* what the model answers
Answers == PlainTexts \cup TagTexts \cup SectionedTexts

\* questions: letters and the characters of the first, the second and the
\* eighth key of the table
QuestionAlphabet == {"A", "qiao", "ke", "li", "pu", "tao", "cha"}

QuestionTexts == Seqs(QuestionAlphabet, MaxText) \ {<<>>}

TextInputs == Answers \cup QuestionTexts

\* a text function is about to be called on any of the texts
TextInit ==
    /\ PipelineInit
    /\ text_in \in TextInputs
    /\ applied = "none"
    /\ text_out = None
    /\ text_again = None

\* lines 137-154: filter_thinking_content(text_in)
CallFilter ==
    /\ applied = "none"
    /\ text_in \in Answers
    /\ applied' = "filter_thinking_content"
    /\ text_out' = Some(filter_thinking_content(text_in))
    /\ UNCHANGED <<text_in, text_again, pipelineVars>>

\* lines 137-154: filter_thinking_content on what it returned
CallFilterAgain ==
    /\ applied = "filter_thinking_content"
    /\ text_again = None
    /\ text_again' = Some(filter_thinking_content(text_out.val))
    /\ UNCHANGED <<text_in, applied, text_out, pipelineVars>>

\* lines 156-259: format_ai_response(text_in)
CallFormat ==
    /\ applied = "none"
    /\ text_in \in Answers
    /\ applied' = "format_ai_response"
    /\ text_out' = Some(format_ai_response(text_in))
    /\ UNCHANGED <<text_in, text_again, pipelineVars>>

\* lines 156-259: format_ai_response on what it returned
CallFormatAgain ==
    /\ applied = "format_ai_response"
    /\ text_again = None
    /\ text_again' = Some(format_ai_response(text_out.val))
    /\ UNCHANGED <<text_in, applied, text_out, pipelineVars>>

\* lines 301-309: the user message for the question text_in
CallPrompt ==
    /\ applied = "none"
    /\ text_in \in QuestionTexts
    /\ applied' = "full_user_prompt"
    /\ text_out' = Some(full_user_prompt(text_in))
    /\ UNCHANGED <<text_in, text_again, pipelineVars>>

TextNext ==
    \/ CallFilter
    \/ CallFilterAgain
    \/ CallFormat
    \/ CallFormatAgain
    \/ CallPrompt

SpecText == TextInit /\ [][TextNext]_vars

----------------------------------------------------------------------------
(* What the claims speak of *)

Last(s) == s[Len(s)]

\* the positions of the events of the given kinds
Positions(evs, kinds) == {i \in 1..Len(evs) : evs[i].kind \in kinds}

Count(evs, kinds) == Cardinality(Positions(evs, kinds))

TerminalKinds == {"done", "error"}

\* the place of an event kind in the order status, content, formatted, terminal
Rank(kind) ==
    CASE kind = "status" -> 1
      [] kind = "content" -> 2
      [] kind = "formatted" -> 3
      [] kind \in TerminalKinds -> 4

\* the payloads of the content events, in order
ContentData(evs) ==
    LET cs == SelectSeq(evs, LAMBDA e : e.kind = "content")
    IN  [i \in 1..Len(cs) |-> cs[i].data]

\* the delta content of a chunk as upstream sent it (None: no content field)
RawContent(chunk) ==
    IF chunk.choices = <<>> THEN None ELSE chunk.choices[1].delta.content

\* the raw content fragments of the chunks, in arrival order
RECURSIVE RawFragments(_)
RawFragments(chunks) ==
    IF chunks = <<>> THEN <<>>
    ELSE (IF Falsy(RawContent(chunks[1])) THEN <<>> ELSE <<RawContent(chunks[1]).val>>)
         \o RawFragments(Tail(chunks))

\* the non-empty filtered fragments of the chunks, in arrival order
RECURSIVE NonEmptyFiltered(_)
NonEmptyFiltered(chunks) ==
    IF chunks = <<>> THEN <<>>
    ELSE LET raw == RawContent(chunks[1])
             filtered == IF Falsy(raw) THEN <<>> ELSE StripTags(raw.val)
         IN  (IF filtered = <<>> THEN <<>> ELSE <<filtered>>)
             \o NonEmptyFiltered(Tail(chunks))

\* the request has read its credential
KeyRead(r) == pc[r] \notin {"idle", "start"}

----------------------------------------------------------------------------
\* C1: the events of a request are at most one status, then content events,
\* then at most one formatted, then one terminal event (done or error, never
\* both); the terminal event is the last event, and it has been emitted exactly
\* when the generator has nothing left to emit.
C1_EventOrder ==
    \A r \in Reqs :
        /\ \A i, j \in 1..Len(events[r]) :
               i < j => Rank(events[r][i].kind) <= Rank(events[r][j].kind)
        /\ Count(events[r], {"status"}) <= 1
        /\ Count(events[r], {"formatted"}) <= 1
        /\ Count(events[r], TerminalKinds) <= 1
        /\ pc[r] \in TerminalPcs
               <=> (events[r] # <<>> /\ Last(events[r]).kind \in TerminalKinds)

C1_Witness ==
    \E r \in Reqs :
        /\ pc[r] = "y_done"
        /\ Count(events[r], {"status"}) = 1
        /\ Count(events[r], {"content"}) >= 2
        /\ Count(events[r], {"formatted"}) = 1
        /\ Last(events[r]) = DoneEvent

----------------------------------------------------------------------------
C2_StateOk ==
    \A r \in Reqs :
        (KeyRead(r) /\ Falsy(api_key[r])) =>
            /\ pc[r] = "y_nokey"
            /\ events[r] = <<ErrorEvent(MSG_NOT_CONFIGURED)>>
            /\ calls[r] = 0
            /\ ctor_calls[r] = 0
            /\ client[r] = NoClient

C2_StepOk ==
    \A r \in Reqs :
        (pc[r] = "y_nokey" \/ pc'[r] = "y_nokey") =>
            /\ zhipu_client' = zhipu_client
            /\ constructed' = constructed

\* C2: a request whose credential is unset or empty emits the error event and
\* nothing else, never the status; it calls neither the constructor nor the
\* chat-completion call, and no step of it changes the shared client, whether
\* the client was unset or already constructed.
C2_MissingCredential == []C2_StateOk /\ [][C2_StepOk]_vars

C2_Witness ==
    \E r \in Reqs :
        /\ pc[r] = "y_nokey"
        /\ api_key[r] = Some(<<>>)
        /\ zhipu_client # NoClient

----------------------------------------------------------------------------
C3_StateOk ==
    \A r \in Reqs :
        (KeyRead(r) /\ ~Falsy(api_key[r])) =>
            /\ events[r] # <<>>
            /\ events[r][1] = StatusEvent
            /\ Positions(events[r], {"status"}) = {1}

\* a constructor call, a chat-completion call or a pull from the stream
C3_UpstreamIO(r) ==
    \/ ctor_calls'[r] > ctor_calls[r]
    \/ calls'[r] > calls[r]
    \/ Len(received'[r]) > Len(received[r])
    \/ Len(logged'[r]) > Len(logged[r])

C3_StepOk ==
    \A r \in Reqs :
        C3_UpstreamIO(r) => (events[r] # <<>> /\ events[r][1] = StatusEvent)

\* C3: a request with a credential emits the status event first and once, and
\* has emitted it before the step that constructs the client, the step that
\* invokes the chat-completion call and every pull from the stream.
C3_StatusFirst == []C3_StateOk /\ [][C3_StepOk]_vars

C3_Witness ==
    \E r \in Reqs :
        /\ ctor_calls[r] = 1
        /\ calls[r] = 1
        /\ received[r] # <<>>
        /\ Count(events[r], {"content"}) >= 1

----------------------------------------------------------------------------
\* C4: the payloads of the content events are the non-empty filtered
\* fragments of the chunks received, one event per such fragment, in arrival
\* order; chunks with no content text or an empty filtered fragment add none.
C4_ContentEvents ==
    \A r \in Reqs : ContentData(events[r]) = NonEmptyFiltered(received[r])

C4_Witness ==
    \E r \in Reqs :
        /\ Len(received[r]) = 3
        /\ received[r][1] = Chunk(Some(<<"b", "<", "thinking", "/", ">">>), None)
        /\ received[r][2] = Chunk(None, Some(<<"a">>))
        /\ received[r][3] = Chunk(Some(<<"a">>), Some(<<"b">>))
        /\ ContentData(events[r]) = << <<"b">>, <<"a">> >>

----------------------------------------------------------------------------
\* C5: full_content_buffer holds, in arrival order, every raw content
\* fragment received so far, also those whose filtered text is empty.
C5_BufferIsEveryRawFragment ==
    \A r \in Reqs : full_content_buffer[r] = RawFragments(received[r])

----------------------------------------------------------------------------
\* the text accumulated by the request
FullText(r) == Concat(full_content_buffer[r])

\* C6: once the stream has ended without failure, a formatted event has been
\* emitted exactly if the accumulated text is non-empty and formatting changes
\* it; it is emitted once, carries the formatted accumulated text and is
\* followed by done; without it, done follows the content (or status) events.
C6_FormattedIffChanged ==
    \A r \in Reqs :
        pc[r] \in {"y_formatted", "y_done"} =>
            LET evs == events[r]
                fmt == Positions(evs, {"formatted"})
                n == Len(evs)
                full == FullText(r)
                formatted == format_ai_response(full)
            IN  /\ (fmt # {}) <=> (full # <<>> /\ formatted # full)
                /\ Cardinality(fmt) <= 1
                /\ \A i \in fmt :
                       /\ evs[i] = FormattedEvent(formatted)
                       /\ i = IF pc[r] = "y_done" THEN n - 1 ELSE n
                /\ pc[r] = "y_done" =>
                       /\ evs[n] = DoneEvent
                       /\ fmt = {} => evs[n - 1].kind \in {"status", "content"}

C6_Witness ==
    \E r \in Reqs :
        /\ pc[r] = "y_done"
        /\ Len(full_content_buffer[r]) = 2
        /\ Len(events[r]) = 5
        /\ events[r][4].kind = "formatted"
        /\ events[r][4].data # FullText(r)

----------------------------------------------------------------------------
\* the request has had a failure of the constructor, the call or the stream
Failed(r) == logged[r] # <<>>

C7_StateOk ==
    \A r \in Reqs :
        Failed(r) =>
            /\ pc[r] \in {"y_initerr", "y_uperr"}
            /\ Last(events[r]).kind = "error"
            /\ Count(events[r], {"error"}) = 1
            /\ Count(events[r], {"done"}) = 0

C7_StepOk ==
    \A r \in Reqs :
        /\ (~Failed(r) /\ Len(logged'[r]) > 0) =>
               /\ Len(events'[r]) = Len(events[r]) + 1
               /\ SubSeq(events'[r], 1, Len(events[r])) = events[r]
               /\ Last(events'[r]).kind = "error"
        /\ Failed(r) => (events'[r] = events[r] \/ pc'[r] = "idle")

\* C7: a failure of the constructor, of the chat-completion call or of the
\* stream at any chunk appends exactly one error event to the events emitted
\* so far, which stay as they were; the request then emits nothing more, and
\* emits no done event.
C7_FailureEndsStream == []C7_StateOk /\ [][C7_StepOk]_vars

C7_Witness ==
    \E r \in Reqs :
        /\ pc[r] = "y_uperr"
        /\ Len(received[r]) = 2
        /\ Count(events[r], {"content"}) = 2
        /\ Last(events[r]).kind = "error"

----------------------------------------------------------------------------
\* the message an error event carries for each way a request fails
MessageOfClass(label) ==
    CASE label = "y_nokey" -> MSG_NOT_CONFIGURED
      [] label = "y_initerr" -> MSG_INIT_FAILED
      [] label = "y_uperr" -> MSG_UNAVAILABLE

\* two ended requests with the same credential, the same chunks and the same
\* place of failure
SameRun(r1, r2) ==
    /\ pc[r1] \in TerminalPcs
    /\ pc[r2] = pc[r1]
    /\ Falsy(api_key[r1]) = Falsy(api_key[r2])
    /\ received[r1] = received[r2]
    /\ calls[r1] = calls[r2]

\* C8: the message of every error event is the fixed message of the way the
\* request failed, and two requests that differ only in the exception raised
\* have emitted the same events.
C8_SanitizedErrors ==
    /\ \A r \in Reqs : \A i \in Positions(events[r], {"error"}) :
           /\ pc[r] \in {"y_nokey", "y_initerr", "y_uperr"}
           /\ events[r][i] = ErrorEvent(MessageOfClass(pc[r]))
    /\ \A r1, r2 \in Reqs : SameRun(r1, r2) => events[r1] = events[r2]

C8_Witness ==
    \E r1, r2 \in Reqs :
        /\ SameRun(r1, r2)
        /\ pc[r1] = "y_uperr"
        /\ received[r1] # <<>>
        /\ logged[r1] # logged[r2]

----------------------------------------------------------------------------
\* C9: the constructor returns a client at most once per process, and every
\* request at or past the chat-completion call holds a client.
C9_ConstructedOnce ==
    /\ constructed <= 1
    /\ \A r \in Reqs : (pc[r] = "call" \/ calls[r] > 0) => client[r] # NoClient

----------------------------------------------------------------------------
\* C10: a request invokes the chat-completion call at most once, also after
\* the call or the stream has failed, and not at all when the credential is
\* missing or the constructor has failed.
C10_OneCall ==
    \A r \in Reqs :
        /\ calls[r] <= 1
        /\ pc[r] \in {"y_nokey", "y_initerr"} => calls[r] = 0
        /\ pc[r] \in LoopPcs \cup {"y_uperr", "y_formatted", "y_done"} => calls[r] = 1

C10_Witness ==
    \E r \in Reqs :
        /\ pc[r] = "y_uperr"
        /\ received[r] # <<>>
        /\ calls[r] = 1

----------------------------------------------------------------------------
\* C11: a POST /ask whose question is empty or only whitespace is answered
\* with 400 and nothing else happens: no generator is started, no event is
\* emitted, the shared client is not touched and no upstream call is made;
\* a request whose generator exists was answered with 200 and its generator
\* holds the request's question trimmed, which is not empty.
C11_StateOk ==
    \A r \in Reqs :
        /\ http_status[r] = 400 =>
               /\ Strip(request[r]) = <<>>
               /\ pc[r] = "idle"
               /\ question[r] = <<>>
               /\ events[r] = <<>>
               /\ calls[r] = 0
               /\ ctor_calls[r] = 0
        /\ pc[r] # "idle" =>
               /\ http_status[r] = 200
               /\ question[r] = Strip(request[r])
               /\ question[r] # <<>>
               /\ question[r][1] \notin Whitespace
               /\ Last(question[r]) \notin Whitespace

\* the step that answers 400 changes nothing of the pipeline
C11_StepOk ==
    \A r \in Reqs :
        (http_status'[r] = 400 /\ <<request[r], http_status[r]>>' # <<request[r], http_status[r]>>)
            => UNCHANGED <<zhipu_client, constructed, pc, api_key, client,
                           full_content_buffer, events, received, calls,
                           ctor_calls, logged, question>>

C11_EmptyQuestionRejected == []C11_StateOk /\ [][C11_StepOk]_vars

\* a whitespace-only question was rejected after an earlier request had
\* created the shared client
C11_Witness ==
    \E r \in Reqs :
        /\ http_status[r] = 400
        /\ request[r] = <<" ", "\n">>
        /\ zhipu_client # NoClient

----------------------------------------------------------------------------
\* the three markers occur in t in order
MarkersInOrder(t) ==
    \E i, j, k \in 1..Len(t) :
        /\ i < j /\ j < k
        /\ HasAt(t, i, RISK_LEVEL)
        /\ HasAt(t, j, RISK_POINT)
        /\ HasAt(t, k, FEEDING_ADVICE)

\* position i of t is the start of a line
LineStart(t, i) == i = 1 \/ t[i - 1] = "\n"

\* position i of t is the start of a line that follows a blank line
AfterBlankLine(t, i) == i > 2 /\ t[i - 1] = "\n" /\ t[i - 2] = "\n"

\* C12: for a text with the three markers in order, the output of
\* format_ai_response has the risk-level marker at the start of a line, then
\* the risk-point marker at the start of a later line that follows a blank
\* line, then the feeding-advice marker at the start of a later line that
\* follows a blank line.
C12_SectionsSeparated ==
    (applied = "format_ai_response" /\ MarkersInOrder(text_in)) =>
        \E i, j, k \in 1..Len(text_out.val) :
            /\ i < j /\ j < k
            /\ HasAt(text_out.val, i, RISK_LEVEL) /\ LineStart(text_out.val, i)
            /\ HasAt(text_out.val, j, RISK_POINT) /\ AfterBlankLine(text_out.val, j)
            /\ HasAt(text_out.val, k, FEEDING_ADVICE) /\ AfterBlankLine(text_out.val, k)

----------------------------------------------------------------------------
\* none of the three section markers occurs in t
NoMarker(t) ==
    /\ ~Contains(t, RISK_LEVEL)
    /\ ~Contains(t, RISK_POINT)
    /\ ~Contains(t, FEEDING_ADVICE)

\* the lines of t, each without its outer whitespace, the empty ones left out
TrimmedLines(t) ==
    LET lines == Split(t)
        trimmed == [i \in 1..Len(lines) |-> Strip(lines[i])]
    IN  Join(SelectSeq(trimmed, LAMBDA line : line # <<>>))

----------------------------------------------------------------------------
\* C14: for a text with the three markers in order, format_ai_response
\* applied to its own output returns that output.
C14_FormatIdempotent ==
    (/\ applied = "format_ai_response"
     /\ MarkersInOrder(text_in)
     /\ text_again.set) => text_again.val = text_out.val

----------------------------------------------------------------------------
\* no denylisted word occurs in t, whole or as two halves side by side
NoDenylisted(t) ==
    /\ \A i \in 1..Len(t) : t[i] \notin Keywords
    /\ \A i \in 1..(Len(t) - 1) : ~(t[i] = "thin" /\ t[i + 1] = "king")

\* C15: filter_thinking_content applied to its own output returns that
\* output, and it returns a text without denylisted words as it is.
C15_FilterIdempotent ==
    applied = "filter_thinking_content" =>
        /\ text_again.set => text_again.val = text_out.val
        /\ NoDenylisted(text_in) => text_out.val = text_in

\* an opener begun inside a half-written opener: the filter removed the joined
\* tag, and the rest, which ends in  king> , was left alone the second time
C15_Witness ==
    /\ applied = "filter_thinking_content"
    /\ text_in = <<"<", "thin", "<", "thinking", ">", "king", ">">>
    /\ text_out = Some(<<"king", ">">>)
    /\ text_again = text_out

----------------------------------------------------------------------------
\* the keys of the table that occur in the question
Occurring(q) ==
    {k \in 1..Len(PET_KNOWLEDGE) : Contains(q, PET_KNOWLEDGE[k].item)}

\* the reference line of entry k
ReferenceLine(k) ==
    <<"\n", "reference", "fw:", "[">> \o PET_KNOWLEDGE[k].item \o <<"]">>
        \o PET_KNOWLEDGE[k].fact

\* the user message for question q is as C16 says
UserMessageOk(q, message) ==
    IF Occurring(q) = {} THEN message = q
    ELSE \E k \in Occurring(q) :
             /\ \A j \in Occurring(q) : k <= j
             /\ message = q \o ReferenceLine(k)
             /\ \A j \in 1..Len(PET_KNOWLEDGE) :
                    j # k => ~Contains(message, PET_KNOWLEDGE[j].fact)

\* C16: the user message is the question followed by the reference line of
\* the first key, in the order of the table, that occurs in the question, and
\* the question alone when no key occurs in it; the fact of no other key is
\* in it.  This holds of the function called on any question and of the
\* message every request has built.
C16_UserMessage ==
    /\ applied = "full_user_prompt" => UserMessageOk(text_in, text_out.val)
    /\ \A r \in Reqs :
           messages[r].set => UserMessageOk(question[r], messages[r].val)

\* tea is named before chocolate in the question, and chocolate, the first
\* key of the table, is the reference
C16_Witness ==
    /\ applied = "full_user_prompt"
    /\ text_in = <<"cha", "qiao", "ke", "li">>
    /\ text_out = Some(text_in \o <<"\n", "reference", "fw:", "[", "qiao", "ke",
                                    "li", "]", "fact1">>)

----------------------------------------------------------------------------
\* a step of a request whose caller has gone away pulls no chunk, yields no
\* event and leaves _zhipu_client as it is
C17_StepOk ==
    \A r \in Reqs :
        (disconnected[r] /\ disconnected'[r]) =>
            /\ received'[r] = received[r]
            /\ events'[r] = events[r]
            /\ zhipu_client' = zhipu_client

\* C17: once the caller of a request has gone away, at whatever point of the
\* stream, no further chunk is pulled from the upstream stream, no further
\* event is emitted for the request and the shared client stays as it is.
C17_NothingAfterDisconnect == [][C17_StepOk]_vars

----------------------------------------------------------------------------
\* the request has emitted its terminal event
TerminalEmitted(r) ==
    /\ events[r] # <<>>
    /\ Last(events[r]).kind \in TerminalKinds

\* C18: with an upstream stream that ends or raises and a caller that goes on
\* taking events, every request that has a generator comes to emit a terminal
\* event, and after it the generator comes to its end.
C18_Terminates ==
    \A r \in Reqs :
        /\ (pc[r] = "start") ~> TerminalEmitted(r)
        /\ TerminalEmitted(r) ~> (pc[r] = "idle")

\* a request has emitted done after the longest stream, all of it skipped
C18_Witness ==
    \E r \in Reqs :
        /\ Len(received[r]) = MaxChunks
        /\ Count(events[r], {"content"}) = 0
        /\ TerminalEmitted(r)
        /\ Last(events[r]).kind = "done"

----------------------------------------------------------------------------
\* C19: in every request full_content_buffer holds as many fragments as
\* content events have been emitted, a formatted event comes only after a
\* content event, and a stream whose fragments are all filtered to empty ends
\* with done and without a formatted event.
C19_BufferCountsContentEvents ==
    \A r \in Reqs :
        /\ Len(full_content_buffer[r]) = Count(events[r], {"content"})
        /\ Count(events[r], {"formatted"}) > 0 => Count(events[r], {"content"}) > 0
        /\ (pc[r] \in {"y_formatted", "y_done"} /\ NonEmptyFiltered(received[r]) = <<>>)
               => /\ pc[r] = "y_done"
                  /\ Last(events[r]).kind = "done"
                  /\ Count(events[r], {"formatted"}) = 0

\* a stream of fragments made of tags only has ended with done
C19_Witness ==
    \E r \in Reqs :
        /\ pc[r] = "y_done"
        /\ Len(RawFragments(received[r])) >= 2
        /\ NonEmptyFiltered(received[r]) = <<>>
        /\ full_content_buffer[r] = <<>>

----------------------------------------------------------------------------
\* the shared client and the requests' states agree
C20_StateOk ==
    /\ zhipu_client \in {NoClient, 1}
    /\ constructed <= 1
    /\ \A r \in Reqs :
           /\ pc[r] = "y_initerr" => (zhipu_client = NoClient /\ ctor_calls[r] = 1)
           /\ (pc[r] \in {"bind", "call", "iter", "y_content", "y_formatted",
                          "y_done", "y_uperr"}) => zhipu_client # NoClient

\* a step changes the shared client only from unset to set, by a constructor
\* call that returned; a constructor call that raised leaves it unset; a
\* request that finds it unset after its status event calls the constructor
C20_StepOk ==
    /\ zhipu_client' # zhipu_client =>
           /\ zhipu_client = NoClient
           /\ zhipu_client' # NoClient
           /\ constructed' = constructed + 1
           /\ \E r \in Reqs : ctor_calls'[r] = ctor_calls[r] + 1
    /\ \A r \in Reqs :
           /\ (ctor_calls'[r] = ctor_calls[r] + 1 /\ constructed' = constructed)
                  => (zhipu_client = NoClient /\ zhipu_client' = NoClient)
           /\ (pc[r] = "y_status" /\ pc'[r] # "y_status" /\ zhipu_client = NoClient)
                  => pc'[r] = "ctor"

\* C20: over any sequence of requests the shared client changes only from
\* unset to set, by a successful construction; a failed construction leaves
\* it unset and the next request with a credential constructs again; once
\* set it is never unset nor replaced, whatever way later requests end.
C20_ClientSetOnce == []C20_StateOk /\ [][C20_StepOk]_vars

\* a later request, which has not called the constructor, has ended in an
\* upstream error and the client of an earlier request is in place
C20_Witness ==
    \E r \in Reqs :
        /\ pc[r] = "y_uperr"
        /\ ctor_calls[r] = 0
        /\ received[r] # <<>>
        /\ zhipu_client = 1

=============================================================================
